---- MODULE Spec2Model ----
(***************************************************************************)
(* ALK-VisDock: the build pipeline (alk_visdock/build.py, build_site) and  *)
(* the SwissDock job client (alk_visdock/docking/swissdock.py).            *)
(*                                                                         *)
(* Python values are modelled as follows.  A string is a TLA+ string, the  *)
(* empty string being the only falsy one.  None and a dict are records.    *)
(* A Ligand object is a reference into `heap`, so that two lists holding   *)
(* the same object see each other's mutations.  A call into the network or *)
(* into an external program returns one of its possible results or raises; *)
(* a raise is the value Raise.                                             *)
(***************************************************************************)
EXTENDS Naturals, Sequences, FiniteSets, TLC

\* ------------------------------------------------------------------ bounds

\* How many of the module-level DEFAULT_LIGANDS are modelled.
NumDefault == 1
\* The longest ligand file (data rows).
MaxRows == 2
\* The most JSON files under the recon directory.
MaxReconFiles == 1

\* ------------------------------------------------------------ Python values

None == [py |-> "None"]
Raise == "<raise>"

\* `a or b` on strings.
Or(a, b) == IF a # "" THEN a ELSE b

\* str.strip(): the file's cells are "", blank, or a clean token.
Blank == "  "
Strip(s) == IF s = Blank THEN "" ELSE s

\* csv.DictReader gives None for a cell the row is too short to hold;
\* `row.get(key) or ""` turns it into "".
Missing == "<None>"
CellText(v) == IF v = Missing THEN "" ELSE v

\* ---------------------------------------------------------------- models.py

PropFields == {"iupac", "formula", "mw", "xlogp", "hbd", "hba", "tpsa", "rotb"}

Ligand(name, smiles, pubchem_cid, chembl_id) ==
    [name |-> name, smiles |-> smiles, pubchem_cid |-> pubchem_cid,
     chembl_id |-> chembl_id, notes |-> "",
     iupac |-> "", formula |-> "", mw |-> "", xlogp |-> "", hbd |-> "",
     hba |-> "", tpsa |-> "", rotb |-> "",
     image_2d |-> "", conformer_sdf |-> "",
     docking |-> None, pose |-> None]

FieldNames == DOMAIN Ligand("", "", "", "")

\* Ligand.to_dict: asdict, then docking and pose are popped when falsy.
to_dict(l) ==
    LET keep == FieldNames \ ((IF l.docking = None THEN {"docking"} ELSE {})
                              \cup (IF l.pose = None THEN {"pose"} ELSE {}))
    IN  [k \in keep |-> l[k]]

\* ------------------------------------------------ sources/pubchem.py results

PropKeys == {"CanonicalSMILES", "IUPACName", "MolecularFormula", "MolecularWeight",
             "XLogP", "HBondDonorCount", "HBondAcceptorCount", "TPSA",
             "RotatableBondCount"}

\* `rows[0] if rows else {}`: a dict is a function on its keys.
EmptyDict == [k \in {} |-> ""]
\* A property row of PubChem in revision v of its data.
FullRow(v) == [k \in PropKeys \cup {"CID"} |-> v]
\* PubChem omits XLogP for some compounds.
PartialRow(v) == [k \in (PropKeys \ {"XLogP"}) \cup {"CID"} |-> v]
PropRows == {EmptyDict, FullRow("a"), PartialRow("b")}

\* dict.get(key, "")
Get(d, k) == IF k \in DOMAIN d THEN d[k] ELSE ""

\* ------------------------------------------------------------- utils/io.py

\* The data rows a ligand file is made of (the cells of name, smiles and
\* pubchem_cid): a row with a blank name, a ligand given by its SMILES, one given
\* by its name alone, one given by its CID.
Rows == {[name |-> Blank, smiles |-> "CCO", pubchem_cid |-> ""],
         [name |-> "foo", smiles |-> "CCO", pubchem_cid |-> ""],
         [name |-> "bar", smiles |-> "", pubchem_cid |-> ""],
         [name |-> "baz", smiles |-> "", pubchem_cid |-> "2244"]}

\* Lines 19-21: a row counts when its stripped name is not empty.
NamedUnstripped(row) == CellText(row.name) # ""
Named(row) == Strip(CellText(row.name)) # ""

RECURSIVE read_ligands_csv_tsv(_)
read_ligands_csv_tsv(rows) ==
    IF rows = <<>> THEN <<>>
    ELSE LET row == Head(rows)
             name == Strip(CellText(row.name))
         IN  IF ~Named(row)
             THEN read_ligands_csv_tsv(Tail(rows))
             ELSE <<Ligand(name, Strip(CellText(row.smiles)),
                           Strip(CellText(row.pubchem_cid)), "")>>
                  \o read_ligands_csv_tsv(Tail(rows))

\* ----------------------------------------------------------------- build.py

DefaultNames == <<"crizotinib", "ceritinib", "alectinib", "brigatinib", "lorlatinib">>

\* References to Ligand objects: the module-level defaults, then the objects
\* the reader constructs for the rows of a file.
DefaultRefs == 1 .. NumDefault
FileRefs == (NumDefault + 1) .. (NumDefault + MaxRows)
Refs == DefaultRefs \cup FileRefs

\* What the two callers of build_site pass for the docking box.  _build_cmd
\* passes box_center/box_size as tuples of floats (or None); a caller of the
\* function passes center/size as "x,y,z" strings.  "" stands for both "" and
\* None.
XyzString == "1,2,3"
XyzTuple == "(1.0, 2.0, 3.0)"
Parsed == "parsed(1.0, 2.0, 3.0)"

\* --max: the parser's default, and a count below the longest file.
DefaultMax == 50
MaxValues == {1, DefaultMax}

Args ==
    {a \in [ligands_path : {"", "ligands.csv"},
            docking : {"none", "vina", "swissdock"},
            box_center : {"", XyzTuple}, box_size : {"", XyzTuple},
            center : {"", XyzString}, size : {"", XyzString},
            receptor_path : {"", "receptor.pdb"},
            receptor_pdbqt : {"", "receptor.pdbqt"},
            recon_path : {"", "recon"},
            pdb_id : {"", "2xp2"},
            max_ligands : MaxValues] :
        \* _build_cmd passes box_center/box_size and neither center nor size
        /\ (a.box_center # "" \/ a.box_size # "") => (a.center = "" /\ a.size = "")
        \* an argument build_site never reads under the selected backend is left
        \* at its default
        /\ a.docking = "none" => a.center = "" /\ a.size = ""
        /\ a.docking # "vina" => a.receptor_pdbqt = ""}

\* The calls that give a receptor file only to the SwissDock backend, no PDB id,
\* and the default max ligand count.
PlainArgs == {a \in Args : /\ a.docking # "swissdock" => a.receptor_path = ""
                           /\ a.pdb_id = ""
                           /\ a.max_ligands = DefaultMax}

\* The machine the build runs on: have_rdkit(), and whether HTTP requests can
\* succeed at all.
Envs == [rdkit_ok : BOOLEAN, network : BOOLEAN]

NoArgs == [ligands_path |-> "", docking |-> "none",
           box_center |-> "", box_size |-> "", center |-> "", size |-> "",
           receptor_path |-> "", receptor_pdbqt |-> "", recon_path |-> "",
           pdb_id |-> "", max_ligands |-> DefaultMax]
NoEnv == [rdkit_ok |-> FALSE, network |-> FALSE]

\* _parse_xyz: s.split(",") on a str; a tuple has no split.
_parse_xyz(s) == IF s = XyzTuple THEN Raise ELSE Parsed

\* No source call made yet for the ligand; a call made, with its success.
NoCalls == [k \in {} |-> FALSE]
Called(before, call, success) == (call :> success) @@ before

\* serve's arguments before a call.
NoSite == [site_dir |-> "", on_disk |-> "missing", host |-> "", port |-> 0]

\* manifest.json before this call writes it.
NoManifest == [project |-> "", structure_url |-> "", has_cases |-> FALSE]

VARIABLES
    heap,           \* Ref -> Ligand object
    ligs,           \* build_site's list `ligs`: references
    args, env,      \* this call's arguments (normalised) and its machine
    pc,             \* where build_site is
    cur,            \* index of `lig` in ligs
    props, ok,      \* build_site's locals
    dock_center, dock_size,
    cases,          \* build_site's list `cases`
    error,          \* the exception that left build_site, "" if none
    input_rows,     \* history: the rows of the file read
    recon_tree,     \* history: the *.json files of the tree as the scan met them
    docking_set, pose_set,  \* history: indices whose docking/pose this call assigned
    calls,          \* history: docking programs and services this call invoked
    molecules_json, manifest_json,  \* the files as this call wrote them (pc = "done")
    structure_url,  \* build_site's local
    cif_exists,     \* the output directory: assets/<PDB id>.cif is there
    downloads,      \* history: the calls of rcsb.download_mmcif this call made:
                    \* what each did, and whether the file was there before it
    tried,          \* history: the source calls made for `lig`, and whether each
                    \* gave a result
    \* docking/swissdock.py, submit_and_wait:
    job_pc,         \* where submit_and_wait is
    poll_s, max_wait_s,     \* its arguments
    session,        \* the session number preplig returned, "" before
    status,         \* the text checkstatus returned last
    elapsed,        \* time.time() - t0, saturating at MaxClock
    requests,       \* history: the SwissDock endpoints requested, in order (a run
                    \* of checkstatus requests is written once)
    outcome,        \* "" while running, "returned", or the exception raised
    \* utils/io.py, read_ligands_csv_tsv:
    read_pc,        \* "idle" or "returned"
    file,           \* the data rows of the file read
    ligands_read,   \* the list returned
    \* server.py, serve:
    serve_pc,       \* where serve is
    site,           \* its arguments, and what site_dir is on disk
    app,            \* "" before FastAPI(), then "created", then "mounted"
    server,         \* "" or "running" (uvicorn.run was entered and serves)
    serve_error     \* the exception that left serve, "" if none

buildVars == <<heap, ligs, args, env, pc, cur, props, ok, dock_center, dock_size, cases,
               error, input_rows, recon_tree, docking_set, pose_set, calls,
               molecules_json, manifest_json, structure_url, cif_exists, downloads,
               tried>>
jobVars == <<job_pc, poll_s, max_wait_s, session, status, elapsed, requests, outcome>>
readVars == <<read_pc, file, ligands_read>>
serveVars == <<serve_pc, site, app, server, serve_error>>
vars == <<buildVars, jobVars, readVars, serveVars>>

Init ==
    /\ heap = [r \in Refs |-> IF r \in DefaultRefs
                              THEN Ligand(DefaultNames[r], "", "", "")
                              ELSE Ligand("", "", "", "")]
    /\ ligs = <<>>
    /\ args = NoArgs /\ env = NoEnv
    /\ pc = "idle"
    /\ cur = 0
    /\ props = EmptyDict /\ ok = FALSE
    /\ dock_center = "" /\ dock_size = ""
    /\ cases = <<>>
    /\ error = ""
    /\ input_rows = <<>>
    /\ recon_tree = <<>>
    /\ docking_set = {} /\ pose_set = {}
    /\ calls = {}
    /\ molecules_json = <<>> /\ manifest_json = NoManifest
    /\ structure_url = "" /\ cif_exists = FALSE /\ downloads = <<>>
    /\ tried = NoCalls
    /\ job_pc = "idle" /\ poll_s = 0 /\ max_wait_s = 0
    /\ session = "" /\ status = <<>> /\ elapsed = 0
    /\ requests = <<>> /\ outcome = ""
    /\ read_pc = "idle" /\ file = <<>> /\ ligands_read = <<>>
    /\ serve_pc = "idle" /\ site = NoSite /\ app = "" /\ server = ""
    /\ serve_error = ""

\* The object `lig` of the loop, and an assignment to one of its attributes.
\* The object is the one the list holds: no copy is made.
lig == heap[ligs[cur]]
SetAttrs(r, new) == [heap EXCEPT ![r] = [k \in FieldNames |->
                                          IF k \in DOMAIN new THEN new[k] ELSE heap[r][k]]]

\* An HTTP request either raises or returns one of `results`.
Raises == IF env.network THEN BOOLEAN ELSE {TRUE}

\* The files of the recon tree: whether the name holds "case_snapshot" and
\* whether json.loads accepts the text.
ReconFiles == [matches : BOOLEAN, parses : BOOLEAN]
ReconTrees == UNION {[1 .. n -> ReconFiles] : n \in 0 .. MaxReconFiles}

\* Lines 158-163: a file is collected when its name holds "case_snapshot" and
\* json.loads accepts its text (a failure is swallowed).
CollectedUnparsed(p) == p.matches
Collected(p) == p.matches /\ p.parses

\* Lines 157-163: the scan of rp.rglob("*.json").
RECURSIVE scan(_)
scan(files) ==
    IF files = <<>> THEN <<>>
    ELSE LET p == Head(files)
         IN  IF Collected(p)
             THEN <<[path |-> p, snapshot |-> "js"]>> \o scan(Tail(files))
             ELSE scan(Tail(files))

\* Lines 98-132: a call of build_site, up to the loaded ligand list.
build_site(a, e, rows) ==
    /\ pc = "idle"
    /\ (a.ligands_path = "" => rows = <<>>)
    /\ LET center == IF a.box_center # "" /\ a.center = "" THEN a.box_center ELSE a.center
           size == IF a.box_size # "" /\ a.size = "" THEN a.box_size ELSE a.size
           read == read_ligands_csv_tsv(rows)
       IN  /\ args' = [a EXCEPT !.center = center, !.size = size]
           /\ IF a.ligands_path # ""
              THEN /\ heap' = [r \in Refs |->
                                 IF r \in DefaultRefs THEN heap[r]
                                 ELSE IF r - NumDefault <= Len(read)
                                      THEN read[r - NumDefault]
                                      ELSE Ligand("", "", "", "")]
                   /\ ligs' = [i \in 1 .. Len(read) |-> NumDefault + i]
              ELSE /\ heap' = [r \in Refs |-> IF r \in DefaultRefs THEN heap[r]
                                              ELSE Ligand("", "", "", "")]
                   /\ ligs' = [i \in 1 .. NumDefault |-> i]
    /\ env' = e
    /\ input_rows' = rows
    /\ pc' = "structure"
    /\ cur' = 0 /\ props' = EmptyDict /\ ok' = FALSE
    /\ dock_center' = "" /\ dock_size' = ""
    /\ cases' = <<>> /\ error' = "" /\ recon_tree' = <<>>
    /\ docking_set' = {} /\ pose_set' = {} /\ calls' = {}
    /\ molecules_json' = <<>> /\ manifest_json' = NoManifest
    /\ structure_url' = "" /\ downloads' = <<>> /\ tried' = NoCalls
    /\ UNCHANGED cif_exists
    /\ UNCHANGED <<jobVars, readVars, serveVars>>

\* What rcsb.download_mmcif does: it raises or returns, and the file is on
\* disk or not.  requests.get and raise_for_status raise before anything is
\* written; a text that is no mmCIF returns False with nothing written; a raise
\* of write_text leaves the file it opened.
DownloadResults ==
    {[raised |-> TRUE, written |-> FALSE]}
    \cup (IF env.network
          THEN {[raised |-> FALSE, written |-> FALSE],
                [raised |-> FALSE, written |-> TRUE],
                [raised |-> TRUE, written |-> TRUE]}
          ELSE {})

ReceptorUrl == "assets/receptor.pdb"
CifUrl == "assets/2XP2.cif"

\* Lines 134-150: the structure for the viewer.  shutil.copy2 is in no try
\* block; the download is.
Structure ==
    /\ pc = "structure"
    /\ IF args.receptor_path # ""
       THEN /\ \E copied \in BOOLEAN :
                 IF copied
                 THEN structure_url' = ReceptorUrl /\ pc' = "recon" /\ error' = error
                 ELSE structure_url' = "" /\ pc' = "aborted" /\ error' = "shutil.copy2"
            /\ UNCHANGED <<cif_exists, downloads>>
       ELSE IF args.pdb_id # ""
       THEN /\ IF ~cif_exists
               THEN \E r \in DownloadResults :
                      /\ cif_exists' = (cif_exists \/ r.written)
                      /\ downloads' = Append(downloads,
                                             [raised |-> r.raised, written |-> r.written,
                                              existed |-> cif_exists])
               ELSE UNCHANGED <<cif_exists, downloads>>
            /\ structure_url' = IF cif_exists' THEN CifUrl ELSE ""
            /\ pc' = "recon" /\ error' = error
       ELSE /\ UNCHANGED <<structure_url, cif_exists, downloads, error>>
            /\ pc' = "recon"
    /\ UNCHANGED <<heap, ligs, args, env, cur, props, ok, dock_center, dock_size, cases,
                   input_rows, recon_tree, docking_set, pose_set, calls,
                   molecules_json, manifest_json, tried>>
    /\ UNCHANGED <<jobVars, readVars, serveVars>>

\* Lines 152-164: the optional recon ingest.
ReconIngest(exists, files) ==
    /\ pc = "recon"
    /\ (args.recon_path = "" \/ ~exists) => files = <<>>
    /\ (args.recon_path = "" => exists)
    /\ cases' = IF args.recon_path # "" /\ exists THEN scan(files) ELSE <<>>
    /\ recon_tree' = files
    /\ pc' = "docking_config"
    /\ UNCHANGED <<heap, ligs, args, env, cur, props, ok, dock_center, dock_size, error,
                   input_rows, docking_set, pose_set, calls, molecules_json,
                   manifest_json>>
    /\ UNCHANGED <<structure_url, cif_exists, downloads, tried>>
    /\ UNCHANGED <<jobVars, readVars, serveVars>>

\* Where the loop goes from the end of one ligand.
NextLigand == IF cur < Len(ligs) THEN "resolve_cid" ELSE "write"

\* Lines 166-172: the docking box is parsed whatever the backend; then the
\* loop is entered.
DockingConfig ==
    /\ pc = "docking_config"
    /\ LET c == IF args.center # "" THEN _parse_xyz(args.center) ELSE ""
           z == IF args.size # "" THEN _parse_xyz(args.size) ELSE ""
       IN  IF c = Raise \/ z = Raise
           THEN /\ pc' = "aborted" /\ error' = "_parse_xyz"
                /\ UNCHANGED <<dock_center, dock_size, cur>>
           ELSE /\ dock_center' = c /\ dock_size' = z
                /\ cur' = IF Len(ligs) > 0 THEN 1 ELSE 0
                /\ pc' = IF Len(ligs) > 0 THEN "resolve_cid" ELSE "write"
                /\ error' = error
    /\ UNCHANGED <<heap, ligs, args, env, props, ok, cases, input_rows, recon_tree,
                   docking_set, pose_set, calls, molecules_json, manifest_json>>
    /\ UNCHANGED <<structure_url, cif_exists, downloads, tried>>
    /\ UNCHANGED <<jobVars, readVars, serveVars>>

\* Lines 180-185: resolve the PubChem CID by name when the ligand has none.
ResolveCid ==
    /\ pc = "resolve_cid"
    /\ IF lig.pubchem_cid = ""
       THEN \E raised \in Raises, cid \in {"", "2244"} :
              /\ heap' = SetAttrs(ligs[cur], [pubchem_cid |-> IF raised THEN "" ELSE cid])
              /\ tried' = Called(tried, "resolve_name_to_cid", ~raised /\ cid # "")
       ELSE heap' = heap /\ tried' = tried
    /\ pc' = "props_by_cid"
    /\ UNCHANGED <<ligs, args, env, cur, props, ok, dock_center, dock_size, cases, error,
                   input_rows, recon_tree, docking_set, pose_set, calls,
                   molecules_json, manifest_json>>
    /\ UNCHANGED <<structure_url, cif_exists, downloads>>
    /\ UNCHANGED <<jobVars, readVars, serveVars>>

\* Lines 187-192.
PropsByCid ==
    /\ pc = "props_by_cid"
    /\ IF lig.pubchem_cid # ""
       THEN \E raised \in Raises, row \in PropRows :
              /\ props' = IF raised THEN EmptyDict ELSE row
              /\ tried' = Called(tried, "props_by_cid", props' # EmptyDict)
       ELSE props' = EmptyDict /\ tried' = tried
    /\ pc' = "props_by_smiles"
    /\ UNCHANGED <<heap, ligs, args, env, cur, ok, dock_center, dock_size, cases, error,
                   input_rows, recon_tree, docking_set, pose_set, calls,
                   molecules_json, manifest_json>>
    /\ UNCHANGED <<structure_url, cif_exists, downloads>>
    /\ UNCHANGED <<jobVars, readVars, serveVars>>

\* The by-SMILES fallback tried whenever the ligand has a SMILES.
TryBySmilesAlways(p, l) == l.smiles # ""

\* Line 196: the by-SMILES fallback is tried for a ligand that has a SMILES
\* and no properties yet.
TryBySmiles(p, l) == p = EmptyDict /\ l.smiles # ""

\* Lines 194-200.
PropsBySmiles ==
    /\ pc = "props_by_smiles"
    /\ IF TryBySmiles(props, lig)
       THEN \E raised \in Raises, row \in PropRows :
              /\ props' = IF raised THEN EmptyDict ELSE row
              /\ tried' = Called(tried, "props_by_smiles", props' # EmptyDict)
       ELSE props' = props /\ tried' = tried
    /\ pc' = "merge"
    /\ UNCHANGED <<heap, ligs, args, env, cur, ok, dock_center, dock_size, cases, error,
                   input_rows, recon_tree, docking_set, pose_set, calls,
                   molecules_json, manifest_json>>
    /\ UNCHANGED <<structure_url, cif_exists, downloads>>
    /\ UNCHANGED <<jobVars, readVars, serveVars>>

\* Lines 203-211: the attributes the merge assigns.  str() is applied to what is
\* already the value's text.
Merged(l, p) ==
    [smiles  |-> Or(Or(l.smiles, Get(p, "CanonicalSMILES")), ""),
     iupac   |-> Or(Get(p, "IUPACName"), l.iupac),
     formula |-> Or(Get(p, "MolecularFormula"), l.formula),
     mw      |-> Or(Get(p, "MolecularWeight"), l.mw),
     xlogp   |-> Or(Get(p, "XLogP"), l.xlogp),
     hbd     |-> Or(Get(p, "HBondDonorCount"), l.hbd),
     hba     |-> Or(Get(p, "HBondAcceptorCount"), l.hba),
     tpsa    |-> Or(Get(p, "TPSA"), l.tpsa),
     rotb    |-> Or(Get(p, "RotatableBondCount"), l.rotb)]

\* Lines 202-211.  `props` is dead after the merge.
MergeProps ==
    /\ pc = "merge"
    /\ heap' = IF props # EmptyDict THEN SetAttrs(ligs[cur], Merged(lig, props)) ELSE heap
    /\ props' = EmptyDict
    /\ pc' = "chembl"
    /\ UNCHANGED <<ligs, args, env, cur, ok, dock_center, dock_size, cases, error,
                   input_rows, recon_tree, docking_set, pose_set, calls,
                   molecules_json, manifest_json>>
    /\ UNCHANGED <<structure_url, cif_exists, downloads, tried>>
    /\ UNCHANGED <<jobVars, readVars, serveVars>>

\* Lines 213-218 (no_chembl is False in both callers).
ChemblId ==
    /\ pc = "chembl"
    /\ IF lig.chembl_id = ""
       THEN \E raised \in Raises, id \in {"", "CHEMBL601719"} :
              heap' = SetAttrs(ligs[cur], [chembl_id |-> IF raised THEN "" ELSE id])
       ELSE heap' = heap
    /\ pc' = "png_by_cid"
    /\ UNCHANGED <<ligs, args, env, cur, props, ok, dock_center, dock_size, cases, error,
                   input_rows, recon_tree, docking_set, pose_set, calls,
                   molecules_json, manifest_json>>
    /\ UNCHANGED <<structure_url, cif_exists, downloads, tried>>
    /\ UNCHANGED <<jobVars, readVars, serveVars>>

\* Lines 220-227.
PngByCid ==
    /\ pc = "png_by_cid"
    /\ IF lig.pubchem_cid # ""
       THEN \E raised \in Raises, got \in BOOLEAN :
              /\ ok' = IF raised THEN FALSE ELSE got
              /\ tried' = Called(tried, "download_png_by_cid", ok')
       ELSE ok' = FALSE /\ tried' = tried
    /\ pc' = "png_by_smiles"
    /\ UNCHANGED <<heap, ligs, args, env, cur, props, dock_center, dock_size, cases, error,
                   input_rows, recon_tree, docking_set, pose_set, calls,
                   molecules_json, manifest_json>>
    /\ UNCHANGED <<structure_url, cif_exists, downloads>>
    /\ UNCHANGED <<jobVars, readVars, serveVars>>

\* Lines 228-233.
PngBySmiles ==
    /\ pc = "png_by_smiles"
    /\ IF ~ok /\ lig.smiles # ""
       THEN \E raised \in Raises, got \in BOOLEAN :
              /\ ok' = IF raised THEN FALSE ELSE got
              /\ tried' = Called(tried, "download_png_by_smiles", ok')
       ELSE ok' = ok /\ tried' = tried
    /\ pc' = "draw_2d"
    /\ UNCHANGED <<heap, ligs, args, env, cur, props, dock_center, dock_size, cases, error,
                   input_rows, recon_tree, docking_set, pose_set, calls,
                   molecules_json, manifest_json>>
    /\ UNCHANGED <<structure_url, cif_exists, downloads>>
    /\ UNCHANGED <<jobVars, readVars, serveVars>>

\* What a raise of draw_2d_png does to build_site, whose call at line 235 is in
\* no try block.
DrawRaised == [pc |-> "aborted", error |-> "draw_2d_png"]

\* Lines 234-237.  draw_2d_png returns None, so `ok` is falsy after it; the
\* image path goes to lig.image_png, which is no field of Ligand and is not
\* serialised.  `ok` is dead after this.
Draw2d ==
    /\ pc = "draw_2d"
    /\ IF ~ok /\ lig.smiles # "" /\ env.rdkit_ok
       THEN \E raised \in BOOLEAN :
              /\ IF raised
                 THEN pc' = DrawRaised.pc /\ error' = DrawRaised.error
                 ELSE pc' = "descriptors" /\ error' = error
              /\ tried' = Called(tried, "draw_2d_png", ~raised)
       ELSE pc' = "descriptors" /\ error' = error /\ tried' = tried
    /\ ok' = FALSE
    /\ UNCHANGED <<heap, ligs, args, env, cur, props, dock_center, dock_size, cases,
                   input_rows, recon_tree, docking_set, pose_set, calls,
                   molecules_json, manifest_json>>
    /\ UNCHANGED <<structure_url, cif_exists, downloads>>
    /\ UNCHANGED <<jobVars, readVars, serveVars>>

\* Lines 239-251.  Whether compute_descriptors returns or raises, the try block
\* ends at lig.descriptors.update: Ligand has no attribute `descriptors`, the
\* AttributeError is swallowed and no field is filled.
Descriptors ==
    /\ pc = "descriptors"
    /\ pc' = "conformer"
    /\ UNCHANGED <<heap, ligs, args, env, cur, props, ok, dock_center, dock_size, cases,
                   error, input_rows, recon_tree, docking_set, pose_set, calls,
                   molecules_json, manifest_json>>
    /\ UNCHANGED <<structure_url, cif_exists, downloads, tried>>
    /\ UNCHANGED <<jobVars, readVars, serveVars>>

\* Lines 253-260.  smiles_to_3d_sdf returns None or raises: ok3d is falsy and
\* nothing is assigned.
Conformer ==
    /\ pc = "conformer"
    /\ pc' = "docking"
    /\ UNCHANGED <<heap, ligs, args, env, cur, props, ok, dock_center, dock_size, cases,
                   error, input_rows, recon_tree, docking_set, pose_set, calls,
                   molecules_json, manifest_json>>
    /\ UNCHANGED <<structure_url, cif_exists, downloads, tried>>
    /\ UNCHANGED <<jobVars, readVars, serveVars>>

\* The dicts build_site assigns to lig.docking.
DockError(backend, e) == [backend |-> backend, error |-> e]
NoBox == "Docking requested but --center/--size not provided"
NoReceptor == "SwissDock needs --receptor (PDB file)."
SwissNoSmiles == "SwissDock needs SMILES (or extend client to upload MOL2)."
NoPdbqt == "Vina requires --receptor-pdbqt"
VinaNoSmiles == "Vina path here expects you provide ligand PDBQT (extend to auto-prep)."
\* str(e) of the AttributeError at line 277: SwissDockClient defines __init__
\* and submit only.
NoSubmitMethod == "'SwissDockClient' object has no attribute 'submit_vina_from_smiles'"
ObabelFailed == "obabel: CalledProcessError"
VinaFailed == "Command failed: vina"
\* run_vina's dict with the pose and log paths added (lines 328-330).
VinaMeta == [backend |-> "vina", pose |-> "vina_out.pdbqt", log |-> "vina.log"]
PosePdb == [format |-> "pdb", path |-> "vina_pose.pdb"]

\* The except clauses at lines 292 and 336: the exception becomes the ligand's
\* docking record and the loop goes on.
DockingExcept(backend, e) == [propagates |-> FALSE, docking |-> DockError(backend, e)]

\* One pass through lines 262-337 for `lig`: the record assigned (None: no
\* assignment), the pose assigned, the programs called, whether an exception
\* leaves the block.
DockResult(docking, p, called, propagates) ==
    [docking |-> docking, pose |-> p, called |-> called, propagates |-> propagates]

DockOutcomes ==
    LET mode == args.docking
        Err(e) == {DockResult(DockError(mode, e), None, {}, FALSE)}
        Caught(e, called) ==
            LET h == DockingExcept(mode, e)
            IN  {DockResult(h.docking, None, called, h.propagates)}
    IN  IF mode \notin {"swissdock", "vina"} THEN {DockResult(None, None, {}, FALSE)}
        ELSE IF dock_center = "" \/ dock_size = "" THEN Err(NoBox)
        ELSE IF mode = "swissdock"
             THEN IF args.receptor_path = "" THEN Err(NoReceptor)
                  ELSE IF lig.smiles = "" THEN Err(SwissNoSmiles)
                  ELSE Caught(NoSubmitMethod, {})
        ELSE IF args.receptor_pdbqt = "" THEN Err(NoPdbqt)
        ELSE IF lig.smiles = "" THEN Err(VinaNoSmiles)
        ELSE Caught(ObabelFailed, {"obabel"})
             \cup Caught(VinaFailed, {"obabel", "vina"})
             \cup {DockResult(VinaMeta, None, {"obabel", "vina"}, FALSE),
                   DockResult(VinaMeta, PosePdb, {"obabel", "vina"}, FALSE)}

\* Lines 262-337, then the loop's next iteration.
Docking ==
    /\ pc = "docking"
    /\ \E r \in DockOutcomes :
         /\ heap' = SetAttrs(ligs[cur],
                             (IF r.docking # None THEN [docking |-> r.docking]
                              ELSE [docking |-> lig.docking])
                             @@ (IF r.pose # None THEN [pose |-> r.pose]
                                 ELSE [pose |-> lig.pose]))
         /\ docking_set' = IF r.docking # None THEN docking_set \cup {cur} ELSE docking_set
         /\ pose_set' = IF r.pose # None THEN pose_set \cup {cur} ELSE pose_set
         /\ calls' = calls \cup r.called
         /\ IF r.propagates
            THEN pc' = "aborted" /\ error' = "docking" /\ cur' = cur
            ELSE pc' = NextLigand /\ error' = error
                 /\ cur' = IF cur < Len(ligs) THEN cur + 1 ELSE cur
    /\ UNCHANGED <<ligs, args, env, props, ok, dock_center, dock_size, cases,
                   input_rows, recon_tree, molecules_json, manifest_json>>
    /\ tried' = NoCalls
    /\ UNCHANGED <<structure_url, cif_exists, downloads>>
    /\ UNCHANGED <<jobVars, readVars, serveVars>>

\* Lines 339-356: molecules.json and manifest.json.
WriteOutputs ==
    /\ pc = "write"
    /\ molecules_json' = [i \in 1 .. Len(ligs) |-> to_dict(heap[ligs[i]])]
    /\ manifest_json' = [project |-> "ALK-VisDock", structure_url |-> structure_url,
                         has_cases |-> cases # <<>>]
    /\ pc' = "done"
    /\ UNCHANGED <<heap, ligs, args, env, cur, props, ok, dock_center, dock_size, cases,
                   error, input_rows, recon_tree, docking_set, pose_set, calls>>
    /\ UNCHANGED <<structure_url, cif_exists, downloads, tried>>
    /\ UNCHANGED <<jobVars, readVars, serveVars>>

\* build_site returns `out` or raises: its frame is gone, and so are the Ligand
\* objects the reader made for it.  The objects of DEFAULT_LIGANDS stay.
Return ==
    /\ pc \in {"done", "aborted"}
    /\ pc' = "idle"
    /\ heap' = [r \in Refs |-> IF r \in DefaultRefs THEN heap[r] ELSE Ligand("", "", "", "")]
    /\ ligs' = <<>> /\ args' = NoArgs /\ env' = NoEnv
    /\ cur' = 0 /\ props' = EmptyDict /\ ok' = FALSE
    /\ dock_center' = "" /\ dock_size' = ""
    /\ cases' = <<>> /\ error' = "" /\ input_rows' = <<>> /\ recon_tree' = <<>>
    /\ docking_set' = {} /\ pose_set' = {} /\ calls' = {}
    /\ molecules_json' = <<>> /\ manifest_json' = NoManifest
    /\ structure_url' = "" /\ downloads' = <<>> /\ tried' = NoCalls
    /\ UNCHANGED cif_exists
    /\ UNCHANGED <<jobVars, readVars, serveVars>>

LigandFiles == UNION {[1 .. n -> Rows] : n \in 0 .. MaxRows}

\* The steps of a running call.
Step ==
    \/ Structure
    \/ pc = "recon" /\ \E exists \in BOOLEAN, files \in ReconTrees : ReconIngest(exists, files)
    \/ DockingConfig
    \/ ResolveCid
    \/ PropsByCid
    \/ PropsBySmiles
    \/ MergeProps
    \/ ChemblId
    \/ PngByCid
    \/ PngBySmiles
    \/ Draw2d
    \/ Descriptors
    \/ Conformer
    \/ Docking
    \/ WriteOutputs
    \/ Return

\* A process that builds from ligand files, any number of times.
FileArgs == {a \in PlainArgs : a.ligands_path # "" /\ a.recon_path = ""}
Next ==
    \/ pc = "idle" /\ \E a \in FileArgs, e \in Envs, rows \in LigandFiles : build_site(a, e, rows)
    \/ Step

Spec == Init /\ [][Next]_vars

\* A process that builds the default ligand list, any number of times.
DefaultArgs == {a \in PlainArgs : a.ligands_path = "" /\ a.recon_path = ""}
NextDefault ==
    \/ pc = "idle" /\ \E a \in DefaultArgs, e \in Envs : build_site(a, e, <<>>)
    \/ Step

SpecDefault == Init /\ [][NextDefault]_vars

\* Builds from ligand files on a machine without network: any docking
\* arguments, any recon tree.
OfflineArgs == {a \in PlainArgs : a.ligands_path # ""}
OfflineEnvs == {e \in Envs : ~e.network}
NextOffline ==
    \/ pc = "idle" /\ \E a \in OfflineArgs, e \in OfflineEnvs, rows \in LigandFiles : build_site(a, e, rows)
    \/ Step

SpecOffline == Init /\ [][NextOffline]_vars

\* Builds from ligand files with no docking backend selected: the enrichment
\* stages on any machine.
EnrichArgs == {a \in FileArgs : a.docking = "none" /\ a.box_center = "" /\ a.box_size = ""}
NextEnrich ==
    \/ pc = "idle" /\ \E a \in EnrichArgs, e \in Envs, rows \in LigandFiles : build_site(a, e, rows)
    \/ Step

SpecEnrich == Init /\ [][NextEnrich]_vars

\* Builds from ligand files with no docking backend, with or without a PDB id
\* and a receptor file for the viewer.
StructureArgs == {a \in Args : /\ a.ligands_path # "" /\ a.recon_path = ""
                               /\ a.docking = "none"
                               /\ a.box_center = "" /\ a.box_size = ""
                               /\ a.max_ligands = DefaultMax}
NextStructure ==
    \/ pc = "idle" /\ \E a \in StructureArgs, e \in Envs, rows \in LigandFiles : build_site(a, e, rows)
    \/ Step

SpecStructure == Init /\ [][NextStructure]_vars

\* __main__.py, _build_cmd: the options of `build` that reach the ligand list and
\* the docking box, for a build from a ligand file (the others at their
\* defaults).
CliOptions == [ligands : {"ligands.csv"}, docking : {"none", "vina"},
               box_center : {"", XyzString}, box_size : {"", XyzString},
               max : MaxValues]

\* Lines 26-46: the box options become tuples of floats (or None), max_ligands
\* is passed on, and build_site is called.  build_site has no parameter
\* max_ligands: the value lands in **_ignored (build.py line 95).
_build_cmd(c, e, rows) ==
    build_site([ligands_path |-> c.ligands, docking |-> c.docking,
                box_center |-> IF c.box_center # "" THEN XyzTuple ELSE "",
                box_size |-> IF c.box_size # "" THEN XyzTuple ELSE "",
                center |-> "", size |-> "",
                receptor_path |-> "", receptor_pdbqt |-> "", recon_path |-> "",
                pdb_id |-> "", max_ligands |-> c.max],
               e, rows)

\* A process that runs the `build` command, any number of times.
NextCli ==
    \/ pc = "idle" /\ \E c \in CliOptions, e \in Envs, rows \in LigandFiles : _build_cmd(c, e, rows)
    \/ Step

SpecCli == Init /\ [][NextCli]_vars

\* ------------------------------------------------------ docking/swissdock.py

\* The clock stops counting here (above every timeout a caller passes).
MaxClock == 4

\* A status text is the tuple of its characters.
Lower == [c \in {"A", "C", "D", "E", "F", "J", "R"} |->
            CASE c = "A" -> "a" [] c = "C" -> "c" [] c = "D" -> "d" [] c = "E" -> "e"
              [] c = "F" -> "f" [] c = "J" -> "j" [] c = "R" -> "r"]
\* str.lower()
lower(t) == [i \in DOMAIN t |-> IF t[i] \in DOMAIN Lower THEN Lower[t[i]] ELSE t[i]]
\* `word in text`
In(word, t) ==
    \E i \in 1 .. (Len(t) - Len(word) + 1) : SubSeq(t, i, i + Len(word) - 1) = word

finished == <<"f", "i", "n", "i", "s", "h", "e", "d">>
done == <<"d", "o", "n", "e">>
errorWord == <<"e", "r", "r", "o", "r">>
failed == <<"f", "a", "i", "l", "e", "d">>

\* What checkstatus may answer.
StatusTexts ==
    {<<"R", "u", "n", "n", "i", "n", "g">>,
     <<"q", "u", "e", "u", "e", "d">>,
     <<"F", "i", "n", "i", "s", "h", "e", "d">>,
     <<"J", "o", "b", " ", "d", "o", "n", "e">>,
     <<"E", "R", "R", "O", "R">>,
     <<"J", "o","b", " ", "F", "A", "I", "L", "E", "D">>,
     <<"f", "a", "i", "l", "e", "d", ":", " ", "n", "o", "t", " ",
       "f", "i", "n", "i", "s", "h", "e", "d">>,
     <<"f", "a", "i", "l", "e", "d", ",", " ", "a", "b", "a", "n", "d", "o", "n", "e", "d">>}

PollIntervals == {0, 1, 2}
Timeouts == {0, 1, 3}

TickStuck(t, d) == t
Tick(t, d) == IF t + d > MaxClock THEN MaxClock ELSE t + d

\* A call of submit_and_wait (lines 117-119: the arguments, the work directory).
submit_and_wait(p, m) ==
    /\ job_pc = "idle"
    /\ job_pc' = "obabel"
    /\ poll_s' = p /\ max_wait_s' = m
    /\ session' = "" /\ status' = <<>> /\ elapsed' = 0
    /\ requests' = <<>> /\ outcome' = ""
    /\ UNCHANGED <<buildVars, readVars, serveVars>>

\* The exception leaves submit_and_wait.
JobRaise(e) ==
    /\ job_pc' = "raised" /\ outcome' = e

\* One of the calls before the poll loop (lines 119-124): it raises, or the
\* function goes on.
JobCall(at, endpoint, then, e) ==
    /\ job_pc = at
    /\ requests' = IF endpoint = "" THEN requests ELSE Append(requests, endpoint)
    /\ \/ JobRaise(e) /\ session' = session
       \/ /\ job_pc' = then /\ outcome' = outcome
          /\ session' = IF endpoint = "preplig" THEN "42" ELSE session
    /\ UNCHANGED <<poll_s, max_wait_s, status, elapsed>>
    /\ UNCHANGED <<buildVars, readVars, serveVars>>

Obabel == JobCall("obabel", "", "preplig", "RuntimeError")
Preplig == JobCall("preplig", "preplig", "preptarget", "HTTPError")
Preptarget == JobCall("preptarget", "preptarget", "setparameters", "HTTPError")
Setparameters == JobCall("setparameters", "setparameters", "startdock", "HTTPError")
\* t0 = time.time() follows startdock.
Startdock == JobCall("startdock", "startdock", "checkstatus", "HTTPError")

\* The loop left at any status text.
breaksAlways(low) == TRUE
\* Line 134: the test that leaves the loop for the download.
breaks(low) == In(finished, low) \/ In(done, low)

\* Lines 130-139: one pass of the loop, up to the sleep.  The request takes
\* d: none or some of the clock's time.
Poll(text, d) ==
    /\ job_pc = "checkstatus"
    /\ requests' = IF requests[Len(requests)] = "checkstatus" THEN requests
                   ELSE Append(requests, "checkstatus")
    /\ elapsed' = Tick(elapsed, d)
    /\ \/ JobRaise("HTTPError") /\ status' = status
       \/ /\ status' = text
          /\ LET low == lower(text)
             IN  IF breaks(low)
                 THEN job_pc' = "retrievesession" /\ outcome' = outcome
                 ELSE IF In(errorWord, low) \/ In(failed, low)
                 THEN JobRaise("RuntimeError")
                 ELSE IF elapsed' > max_wait_s
                 THEN JobRaise("TimeoutError")
                 ELSE job_pc' = "sleep" /\ outcome' = outcome
    /\ UNCHANGED <<poll_s, max_wait_s, session>>
    /\ UNCHANGED <<buildVars, readVars, serveVars>>

\* Line 140: time.sleep(poll_s).
Sleep ==
    /\ job_pc = "sleep"
    /\ elapsed' = Tick(elapsed, poll_s)
    /\ job_pc' = "checkstatus"
    /\ UNCHANGED <<poll_s, max_wait_s, session, status, requests, outcome>>
    /\ UNCHANGED <<buildVars, readVars, serveVars>>

\* Lines 142-144: the archive download, then the result dict.
Retrievesession ==
    /\ job_pc = "retrievesession"
    /\ requests' = Append(requests, "retrievesession")
    /\ \/ JobRaise("HTTPError")
       \/ job_pc' = "returned" /\ outcome' = "returned"
    /\ UNCHANGED <<poll_s, max_wait_s, session, status, elapsed>>
    /\ UNCHANGED <<buildVars, readVars, serveVars>>

\* The caller has the result or the exception; another job may be submitted.
JobEnd ==
    /\ job_pc \in {"returned", "raised"}
    /\ job_pc' = "idle"
    /\ poll_s' = 0 /\ max_wait_s' = 0
    /\ session' = "" /\ status' = <<>> /\ elapsed' = 0
    /\ requests' = <<>> /\ outcome' = ""
    /\ UNCHANGED <<buildVars, readVars, serveVars>>

\* SwissDockClient.submit, lines 158-159: the work directory and the MOL2 path.
submit ==
    /\ job_pc = "idle"
    /\ job_pc' = "submit_obabel"
    /\ poll_s' = 0 /\ max_wait_s' = 0
    /\ session' = "" /\ status' = <<>> /\ elapsed' = 0
    /\ requests' = <<>> /\ outcome' = ""
    /\ UNCHANGED <<buildVars, readVars, serveVars>>

\* Line 160: smiles_to_mol2_with_obabel is called without its required
\* parameter `title`: TypeError, before obabel or any request.  Lines 161-164
\* (preplig_vina, preptarget, startdock, return session) are never reached.
SubmitObabel ==
    /\ job_pc = "submit_obabel"
    /\ JobRaise("TypeError")
    /\ UNCHANGED <<poll_s, max_wait_s, session, status, elapsed, requests>>
    /\ UNCHANGED <<buildVars, readVars, serveVars>>

NextJob ==
    \/ job_pc = "idle" /\ \E p \in PollIntervals, m \in Timeouts : submit_and_wait(p, m)
    \/ submit
    \/ SubmitObabel
    \/ Obabel
    \/ Preplig
    \/ Preptarget
    \/ Setparameters
    \/ Startdock
    \/ job_pc = "checkstatus" /\ \E text \in StatusTexts, d \in {0, 1} : Poll(text, d)
    \/ Sleep
    \/ Retrievesession
    \/ JobEnd

SpecJob == Init /\ [][NextJob]_vars

\* The same process when a call that is due is made and time passes: the
\* sleep returns, and the clock has moved on again and again when a status check
\* returns.
ClockAdvances == job_pc = "checkstatus" /\ \E text \in StatusTexts : Poll(text, 1)
SpecJobLive == SpecJob /\ WF_vars(Sleep) /\ SF_vars(ClockAdvances)

\* ------------------------------------------- utils/io.py, the reader alone

\* The rows of a file as csv.DictReader yields them: the name cell missing,
\* empty, blank or a name; the SMILES cell missing or a SMILES.
ReadRows == [name : {Missing, "", Blank, "foo", "bar"},
             smiles : {Missing, "CCO"},
             pubchem_cid : {"", "2244"}]
ReadFiles == UNION {[1 .. n -> ReadRows] : n \in 0 .. MaxRows}

\* A call of read_ligands_csv_tsv on a file of these rows.
ReadFile(f) ==
    /\ read_pc = "idle"
    /\ file' = f
    /\ ligands_read' = read_ligands_csv_tsv(f)
    /\ read_pc' = "returned"
    /\ UNCHANGED <<buildVars, jobVars, serveVars>>

\* The caller has the list.
ReadEnd ==
    /\ read_pc = "returned"
    /\ read_pc' = "idle" /\ file' = <<>> /\ ligands_read' = <<>>
    /\ UNCHANGED <<buildVars, jobVars, serveVars>>

NextRead ==
    \/ read_pc = "idle" /\ \E f \in ReadFiles : ReadFile(f)
    \/ ReadEnd

SpecRead == Init /\ [][NextRead]_vars

\* ------------------------------------------------------------- server.py

\* What the path site_dir is on disk, and the other arguments of serve.
Sites == [site_dir : {"site", "elsewhere"}, on_disk : {"missing", "dir", "file"},
          host : {"127.0.0.1", "0.0.0.0"}, port : {8000, 8080, 8888}]

\* Path.exists()
existsAlways(on_disk) == TRUE
exists(on_disk) == on_disk # "missing"

\* A call of serve (line 12: the path is resolved).
serve(a) ==
    /\ serve_pc = "idle"
    /\ site' = a
    /\ serve_pc' = "exists"
    /\ app' = "" /\ server' = "" /\ serve_error' = ""
    /\ UNCHANGED <<buildVars, jobVars, readVars>>

\* Lines 13-14.
SiteExists ==
    /\ serve_pc = "exists"
    /\ IF ~exists(site.on_disk)
       THEN serve_pc' = "raised" /\ serve_error' = "FileNotFoundError"
       ELSE serve_pc' = "app" /\ serve_error' = serve_error
    /\ UNCHANGED <<site, app, server>>
    /\ UNCHANGED <<buildVars, jobVars, readVars>>

\* Line 16.
CreateApp ==
    /\ serve_pc = "app"
    /\ app' = "created"
    /\ serve_pc' = "mount"
    /\ UNCHANGED <<site, server, serve_error>>
    /\ UNCHANGED <<buildVars, jobVars, readVars>>

\* Line 17: StaticFiles checks that its directory is one, and raises
\* RuntimeError otherwise.
Mount ==
    /\ serve_pc = "mount"
    /\ IF site.on_disk = "dir"
       THEN app' = "mounted" /\ serve_pc' = "run" /\ serve_error' = serve_error
       ELSE app' = app /\ serve_pc' = "raised" /\ serve_error' = "RuntimeError"
    /\ UNCHANGED <<site, server>>
    /\ UNCHANGED <<buildVars, jobVars, readVars>>

\* Line 19: uvicorn.run serves, or cannot bind the address.
Run ==
    /\ serve_pc = "run"
    /\ \/ server' = "running" /\ serve_pc' = "serving" /\ serve_error' = serve_error
       \/ server' = server /\ serve_pc' = "raised" /\ serve_error' = "OSError"
    /\ UNCHANGED <<site, app>>
    /\ UNCHANGED <<buildVars, jobVars, readVars>>

\* The server is stopped and serve returns, or the exception has left serve.
ServeEnd ==
    /\ serve_pc \in {"serving", "raised"}
    /\ serve_pc' = "idle"
    /\ site' = NoSite /\ app' = "" /\ server' = "" /\ serve_error' = ""
    /\ UNCHANGED <<buildVars, jobVars, readVars>>

NextServe ==
    \/ serve_pc = "idle" /\ \E a \in Sites : serve(a)
    \/ SiteExists
    \/ CreateApp
    \/ Mount
    \/ Run
    \/ ServeEnd

SpecServe == Init /\ [][NextServe]_vars

\* ------------------------------------------------------------------- claims

\* The ligand at position i of this call's list.
LigAt(i) == heap[ligs[i]]
\* The rows of the file read that name a ligand, in file order.
NamedRows == SelectSeq(input_rows, LAMBDA r : Strip(r.name) # "")
BackendSelected == args.docking \in {"vina", "swissdock"}

\* The calls the enrichment stages make.
StageCalls == {"resolve_name_to_cid", "props_by_cid", "props_by_smiles",
               "chembl_id_by_name", "png_by_cid", "png_by_smiles", "draw_2d_png",
               "compute_descriptors", "smiles_to_3d_sdf"}

\* C1: an exception raised by the call of an enrichment stage (CID resolution,
\* the property fetches, the ChEMBL lookup, the 2D image by PubChem or by
\* draw_2d_png, the descriptors, the 3D conformer) never leaves build_site: no
\* run is aborted by one.
C1_StageExceptionsSuppressed == pc = "aborted" => error \notin StageCalls

\* C2: the merge of fetched properties fills empty fields only: a field of the
\* ligand that holds a non-empty value before the merge holds the same value
\* after it.
C2_MergeKeepsFirstValue ==
    [][pc = "merge" =>
         \A f \in {"smiles"} \cup PropFields :
            lig[f] # "" => heap'[ligs[cur]][f] = lig[f]]_vars

\* C3: once checkstatus has returned a text that contains "failed" (in any
\* case), submit_and_wait has raised and no retrievesession request has been
\* made for the job.
C3_FailedStatusRaises ==
    (status # <<>> /\ In(failed, lower(status)))
        => /\ job_pc = "raised"
           /\ \A i \in DOMAIN requests : requests[i] # "retrievesession"

\* C4: an entry of molecules.json has the key "docking" (the key "pose") only
\* if this call of build_site assigned the ligand's docking (pose), also when
\* the default ligand list is built again.
C4_DockingKeysOnlyWhenSetThisRun ==
    pc = "done" =>
        \A i \in DOMAIN molecules_json :
            /\ "docking" \in DOMAIN molecules_json[i] => i \in docking_set
            /\ "pose" \in DOMAIN molecules_json[i] => i \in pose_set

\* C5: with a backend selected and the box centre or the box size not
\* supplied, no backend program is called, every ligand processed gets the
\* record {backend, error: no box}, and build_site does not raise from its docking
\* configuration or its docking block.
C5_MissingBoxIsRecorded ==
    (pc # "idle" /\ BackendSelected /\ (args.center = "" \/ args.size = ""))
        => /\ pc = "aborted" => error \notin {"_parse_xyz", "docking"}
           /\ calls = {}
           /\ \A i \in docking_set : LigAt(i).docking = DockError(args.docking, NoBox)
           /\ pc = "done" => docking_set = DOMAIN ligs

\* C6: with a backend selected and both the box centre and the box size
\* supplied (as box_center/box_size or as center/size), build_site does not
\* raise from its docking configuration or its docking block, and for a ligand with
\* a SMILES and the backend's receptor the backend is invoked and the ligand's
\* record is the backend's result or its error.
C6_BoxSuppliedBackendInvoked ==
    (pc # "idle" /\ BackendSelected /\ args.center # "" /\ args.size # "")
        => /\ pc = "aborted" => error \notin {"_parse_xyz", "docking"}
           /\ \A i \in docking_set :
                (/\ LigAt(i).smiles # ""
                 /\ args.docking = "vina" => args.receptor_pdbqt # ""
                 /\ args.docking = "swissdock" => args.receptor_path # "")
                    => calls # {}

\* The errors a docking record carries when the backend's call raised.
RaisedByBackend == {ObabelFailed, VinaFailed, NoSubmitMethod}

\* C7: once the docking backend's call has raised for a ligand, the ligand
\* carries the record {backend, error} and build_site does not raise: the later
\* ligands are processed and the outputs are written.
C7_DockingFailureDoesNotStopBuild ==
    \A i \in docking_set :
        (\E e \in RaisedByBackend : LigAt(i).docking = DockError(args.docking, e))
            => pc # "aborted"

\* C8: a ligand whose row has no SMILES and whose CID is not resolved (the row
\* gives none, the resolution returned none or raised) has every property field
\* empty after its enrichment, and the build that holds it does not raise.
C8_UnresolvedLigandStaysEmpty ==
    \A i \in DOMAIN ligs :
        (/\ i < cur \/ pc \in {"write", "done"}
         /\ NamedRows[i].smiles = ""
         /\ LigAt(i).pubchem_cid = "")
            => /\ \A f \in PropFields : LigAt(i)[f] = ""
               /\ pc # "aborted"

\* C9: a build from a ligand file without network and without docking does not
\* raise, and writes one entry for each row that names a ligand, bearing the
\* row's (stripped) name, in file order.
C9_OneEntryPerNamedRow ==
    (pc # "idle" /\ ~env.network /\ args.docking = "none")
        => /\ pc # "aborted"
           /\ pc = "done" =>
                /\ Len(molecules_json) = Len(NamedRows)
                /\ \A i \in DOMAIN molecules_json :
                     molecules_json[i].name = Strip(NamedRows[i].name)

\* C10: the manifest's has_cases is false when no recon directory is given,
\* and true exactly when the scan met a file whose name holds "case_snapshot"
\* and whose text parses as JSON.
C10_HasCases ==
    pc = "done" =>
        /\ args.recon_path = "" => ~manifest_json.has_cases
        /\ manifest_json.has_cases
             = (/\ args.recon_path # ""
                /\ \E i \in DOMAIN recon_tree :
                     recon_tree[i].matches /\ recon_tree[i].parses)

\* C10's case: a recon directory is given and a snapshot was collected.
C10_Witness ==
    /\ pc = "done"
    /\ args.recon_path # ""
    /\ recon_tree # <<>>
    /\ manifest_json.has_cases

\* The rows of the file read whose name cell is missing, empty or blank, and
\* the place of a named row among the named rows.
Nameless(i) == file[i].name \in {Missing, "", Blank}
PlaceOf(i) == Cardinality({j \in 1 .. i : ~Nameless(j)})

\* C11: read_ligands_csv_tsv returns one Ligand for each row whose name cell
\* is not missing or blank, in file order, with the row's name and SMILES; a
\* nameless row ends neither the read nor the list.
C11_NamelessRowsSkipped ==
    read_pc = "returned" =>
        /\ Len(ligands_read) = Cardinality({i \in DOMAIN file : ~Nameless(i)})
        /\ \A i \in DOMAIN file :
             ~Nameless(i) =>
                /\ ligands_read[PlaceOf(i)].name = file[i].name
                /\ ligands_read[PlaceOf(i)].smiles
                     = (IF file[i].smiles = Missing THEN "" ELSE file[i].smiles)

\* C11's case: a row without a name cell, then a named row that is returned.
C11_Witness ==
    /\ read_pc = "returned"
    /\ Len(file) >= 2
    /\ file[1].name = Missing
    /\ file[2].name = "bar"
    /\ Len(ligands_read) = 1
    /\ ligands_read[1].name = "bar"

\* C12: a build never enriches more ligands than the max ligand count it was
\* given, and never writes more entries than that to molecules.json.
C12_AtMostMaxLigands ==
    pc # "idle" =>
        /\ cur <= args.max_ligands
        /\ Len(molecules_json) <= args.max_ligands

\* What leaves a submission when a program or a request it calls fails, when
\* the job fails, or when the wait times out.
ExternalFailures == {"RuntimeError", "HTTPError", "TimeoutError"}
SubmissionCalls == <<"preplig", "preptarget", "setparameters", "startdock">>

\* C13: a submission (submit_and_wait or SwissDockClient.submit) issues
\* preplig, preptarget, setparameters and startdock in this order: startdock is
\* requested only after the three others, a status check only after startdock,
\* and a submission that ends without a failure of a program, of a request or of
\* the job has issued the four calls.
C13_SubmissionCallOrder ==
    /\ \A i \in DOMAIN requests :
         /\ requests[i] = "startdock"
              => SubSeq(requests, 1, i) = SubmissionCalls
         /\ requests[i] = "checkstatus"
              => \E j \in 1 .. (i - 1) : requests[j] = "startdock"
    /\ (job_pc \in {"returned", "raised"} /\ outcome \notin ExternalFailures)
         => /\ Len(requests) >= 4
            /\ SubSeq(requests, 1, 4) = SubmissionCalls

C15_LigandsDoNotPersist ==
    /\ pc = "structure" =>
         \A i \in DOMAIN ligs :
            LigAt(i) = Ligand(LigAt(i).name, LigAt(i).smiles, LigAt(i).pubchem_cid, "")
    /\ pc = "idle" =>
         \A r \in DefaultRefs : heap[r] = Ligand(DefaultNames[r], "", "", "")

\* C16: on a site directory that does not exist, serve raises
\* FileNotFoundError with no application created or mounted and no server
\* started; the server runs only when the directory exists.
C16_ServeFailsFast ==
    /\ (serve_pc \notin {"idle", "exists"} /\ site.on_disk = "missing")
         => /\ serve_pc = "raised"
            /\ serve_error = "FileNotFoundError"
            /\ app = ""
            /\ server = ""
    /\ server = "running" => site.on_disk = "dir"

\* C16's case: serve has raised on a missing directory.
C16_Witness ==
    /\ serve_pc = "raised"
    /\ site.on_disk = "missing"
    /\ serve_error = "FileNotFoundError"
    /\ app = "" /\ server = ""

\* C17: with a PDB id given (and no receptor file), a download that raises
\* or writes no file leaves structure_url empty and build_site does not raise;
\* structure_url is set only when the mmCIF file is in the assets directory;
\* and no download is made when the file is already there.
C17_StructureDegrades ==
    (pc \notin {"idle", "structure"} /\ args.pdb_id # "" /\ args.receptor_path = "")
        => /\ \A i \in DOMAIN downloads :
                /\ ~downloads[i].existed
                /\ (downloads[i].raised \/ ~downloads[i].written)
                     => structure_url = "" /\ pc # "aborted"
           /\ structure_url # "" => cif_exists
           /\ pc = "done" => manifest_json.structure_url = structure_url

\* The enrichment sources of one ligand, in the order of build.py:180-237.
CallOrder == <<"resolve_name_to_cid", "props_by_cid", "props_by_smiles",
               "download_png_by_cid", "download_png_by_smiles", "draw_2d_png">>
NewCall(c) == c \in DOMAIN tried' /\ c \notin DOMAIN tried
Succeeded(c) == c \in DOMAIN tried /\ tried[c]

\* C18: for each ligand the enrichment sources are called in the fixed order,
\* each at most once: the CID is resolved by name only for a ligand without a
\* CID; properties and image by CID are requested only with a CID; properties
\* by SMILES only for a ligand with a SMILES when by-CID gave none; the image by
\* SMILES only when the image by CID did not succeed; the local toolkit only
\* when neither download succeeded.
C18_FallbackOrder ==
    [][ /\ \A i \in DOMAIN CallOrder :
              NewCall(CallOrder[i])
                  => \A j \in DOMAIN CallOrder : j >= i => CallOrder[j] \notin DOMAIN tried
        /\ NewCall("resolve_name_to_cid") => lig.pubchem_cid = ""
        /\ NewCall("props_by_cid") => lig.pubchem_cid # ""
        /\ NewCall("props_by_smiles")
              => lig.smiles # "" /\ ~Succeeded("props_by_cid")
        /\ NewCall("download_png_by_cid") => lig.pubchem_cid # ""
        /\ NewCall("download_png_by_smiles")
              => lig.smiles # "" /\ ~Succeeded("download_png_by_cid")
        /\ NewCall("draw_2d_png")
              => /\ ~Succeeded("download_png_by_cid")
                 /\ ~Succeeded("download_png_by_smiles")
      ]_vars

\* A ligand for which every source was tried: its CID was resolved by name,
\* the properties by CID gave nothing and those by SMILES were requested, both
\* image downloads failed, and the local toolkit was called.
C18_Witness ==
    /\ DOMAIN tried = {CallOrder[i] : i \in DOMAIN CallOrder}
    /\ tried["resolve_name_to_cid"] /\ ~tried["props_by_cid"]
    /\ ~tried["download_png_by_cid"] /\ ~tried["download_png_by_smiles"]

====
